---- MODULE Spec2Model ----
(***************************************************************************)
(* A model of scripts/jtag/jtag.py: the IEEE-1149.1 TAP controller graph   *)
(* (JtagState), the state machine with its path search and replay cache    *)
(* (JtagStateMachine) and the engine that drives a controller              *)
(* (JtagEngine).                                                           *)
(***************************************************************************)
EXTENDS Integers, Sequences, FiniteSets, TLC

VARIABLES
    current,        \* JtagStateMachine._current (the name of the state)
    tr_cache,       \* JtagStateMachine._tr_cache
    eng_cache,      \* JtagEngine._tr_cache
    tap,            \* the state of the physical TAP behind the controller
    ctrl_has_reset, \* whether the controller object has a reset() method
    ctrl_log,       \* the controller calls of the last engine operation
    cs_log,         \* the change_state calls of the last engine operation
    last_op,        \* the last operation called and how it ended
    nops,           \* number of operations called so far
    first_tms,      \* history: for each (source state, target name), the bits
                    \* change_state passed to write_tms on its first call
    recovery,       \* history: whether a completed reset found the TAP away
                    \* from the state machine's state (recovered), and whether
                    \* a controller call failed since the last completed reset
    pair,           \* two engines constructed one after the other: the
                    \* objects they hold by reference (heap), the engines
                    \* (eng) and, for each, the engine a run of its own
                    \* operations alone gives (solo)
    graph,          \* the exits of the states find_path is called on
    frames,         \* the calls of find_path.next_path in progress, the
                    \* innermost last
    fp              \* a direct call of find_path / get_events and its results

vars == <<current, tr_cache, eng_cache, tap, ctrl_has_reset, ctrl_log, cs_log,
          last_op, nops, first_tms, recovery, pair, graph, frames, fp>>

engine_vars ==
    <<eng_cache, tap, ctrl_has_reset, ctrl_log, cs_log, first_tms, recovery,
      pair, graph, frames>>

-----------------------------------------------------------------------------
(* Bounds of the model *)

\* operations called on one engine
MaxOps == 3

\* operations called directly on one state machine
MaxFsmOps == 3

\* length of a bit sequence handed directly to handle_events
MaxEvLen == 2

-----------------------------------------------------------------------------
(* JtagState and the graph wired by JtagStateMachine.__init__ *)

StateNames ==
    <<"test_logic_reset", "run_test_idle", "select_dr_scan", "capture_dr",
      "shift_dr", "exit_1_dr", "pause_dr", "exit_2_dr", "update_dr",
      "select_ir_scan", "capture_ir", "shift_ir", "exit_1_ir", "pause_ir",
      "exit_2_ir", "update_ir">>

States == {StateNames[i] : i \in 1..Len(StateNames)}

\* a wiring whose select_ir_scan loops on event 1 instead of going to
\* test_logic_reset
exits_copied_row(s) ==
    CASE s = "test_logic_reset" -> <<"run_test_idle", "test_logic_reset">>
      [] s = "run_test_idle"    -> <<"run_test_idle", "select_dr_scan">>
      [] s = "select_dr_scan"   -> <<"capture_dr", "select_ir_scan">>
      [] s = "capture_dr"       -> <<"shift_dr", "exit_1_dr">>
      [] s = "shift_dr"         -> <<"shift_dr", "exit_1_dr">>
      [] s = "exit_1_dr"        -> <<"pause_dr", "update_dr">>
      [] s = "pause_dr"         -> <<"pause_dr", "exit_2_dr">>
      [] s = "exit_2_dr"        -> <<"shift_dr", "update_dr">>
      [] s = "update_dr"        -> <<"run_test_idle", "select_dr_scan">>
      [] s = "select_ir_scan"   -> <<"capture_ir", "select_ir_scan">>
      [] s = "capture_ir"       -> <<"shift_ir", "exit_1_ir">>
      [] s = "shift_ir"         -> <<"shift_ir", "exit_1_ir">>
      [] s = "exit_1_ir"        -> <<"pause_ir", "update_ir">>
      [] s = "pause_ir"         -> <<"pause_ir", "exit_2_ir">>
      [] s = "exit_2_ir"        -> <<"shift_ir", "update_ir">>
      [] s = "update_ir"        -> <<"run_test_idle", "select_dr_scan">>

\* a wiring whose capture_dr goes to pause_dr on event 1 instead of
\* exit_1_dr
exits_capture_to_pause(s) ==
    CASE s = "test_logic_reset" -> <<"run_test_idle", "test_logic_reset">>
      [] s = "run_test_idle"    -> <<"run_test_idle", "select_dr_scan">>
      [] s = "select_dr_scan"   -> <<"capture_dr", "select_ir_scan">>
      [] s = "capture_dr"       -> <<"shift_dr", "pause_dr">>
      [] s = "shift_dr"         -> <<"shift_dr", "exit_1_dr">>
      [] s = "exit_1_dr"        -> <<"pause_dr", "update_dr">>
      [] s = "pause_dr"         -> <<"pause_dr", "exit_2_dr">>
      [] s = "exit_2_dr"        -> <<"shift_dr", "update_dr">>
      [] s = "update_dr"        -> <<"run_test_idle", "select_dr_scan">>
      [] s = "select_ir_scan"   -> <<"capture_ir", "test_logic_reset">>
      [] s = "capture_ir"       -> <<"shift_ir", "exit_1_ir">>
      [] s = "shift_ir"         -> <<"shift_ir", "exit_1_ir">>
      [] s = "exit_1_ir"        -> <<"pause_ir", "update_ir">>
      [] s = "pause_ir"         -> <<"pause_ir", "exit_2_ir">>
      [] s = "exit_2_ir"        -> <<"shift_ir", "update_ir">>
      [] s = "update_ir"        -> <<"run_test_idle", "select_dr_scan">>

\* a wiring whose update states go to test_logic_reset on event 0 instead
\* of run_test_idle
exits_update_to_reset(s) ==
    CASE s = "test_logic_reset" -> <<"run_test_idle", "test_logic_reset">>
      [] s = "run_test_idle"    -> <<"run_test_idle", "select_dr_scan">>
      [] s = "select_dr_scan"   -> <<"capture_dr", "select_ir_scan">>
      [] s = "capture_dr"       -> <<"shift_dr", "exit_1_dr">>
      [] s = "shift_dr"         -> <<"shift_dr", "exit_1_dr">>
      [] s = "exit_1_dr"        -> <<"pause_dr", "update_dr">>
      [] s = "pause_dr"         -> <<"pause_dr", "exit_2_dr">>
      [] s = "exit_2_dr"        -> <<"shift_dr", "update_dr">>
      [] s = "update_dr"        -> <<"test_logic_reset", "select_dr_scan">>
      [] s = "select_ir_scan"   -> <<"capture_ir", "test_logic_reset">>
      [] s = "capture_ir"       -> <<"shift_ir", "exit_1_ir">>
      [] s = "shift_ir"         -> <<"shift_ir", "exit_1_ir">>
      [] s = "exit_1_ir"        -> <<"pause_ir", "update_ir">>
      [] s = "pause_ir"         -> <<"pause_ir", "exit_2_ir">>
      [] s = "exit_2_ir"        -> <<"shift_ir", "update_ir">>
      [] s = "update_ir"        -> <<"test_logic_reset", "select_dr_scan">>

\* JtagState.exits after setx: <<exit on event 0, exit on event 1>>
exits(s) ==
    CASE s = "test_logic_reset" -> <<"run_test_idle", "test_logic_reset">>
      [] s = "run_test_idle"    -> <<"run_test_idle", "select_dr_scan">>
      [] s = "select_dr_scan"   -> <<"capture_dr", "select_ir_scan">>
      [] s = "capture_dr"       -> <<"shift_dr", "exit_1_dr">>
      [] s = "shift_dr"         -> <<"shift_dr", "exit_1_dr">>
      [] s = "exit_1_dr"        -> <<"pause_dr", "update_dr">>
      [] s = "pause_dr"         -> <<"pause_dr", "exit_2_dr">>
      [] s = "exit_2_dr"        -> <<"shift_dr", "update_dr">>
      [] s = "update_dr"        -> <<"run_test_idle", "select_dr_scan">>
      [] s = "select_ir_scan"   -> <<"capture_ir", "test_logic_reset">>
      [] s = "capture_ir"       -> <<"shift_ir", "exit_1_ir">>
      [] s = "shift_ir"         -> <<"shift_ir", "exit_1_ir">>
      [] s = "exit_1_ir"        -> <<"pause_ir", "update_ir">>
      [] s = "pause_ir"         -> <<"pause_ir", "exit_2_ir">>
      [] s = "exit_2_ir"        -> <<"shift_ir", "update_ir">>
      [] s = "update_ir"        -> <<"run_test_idle", "select_dr_scan">>

\* a getx that leaves the set of states from exit_1_dr
getx_dangling(s, event) ==
    IF s = "exit_1_dr" /\ event # 0 THEN "udpate_dr"
    ELSE exits(s)[IF event # 0 THEN 2 ELSE 1]

\* JtagState.getx: self.exits[int(bool(event))]
getx(s, event) == exits(s)[IF event # 0 THEN 2 ELSE 1]

-----------------------------------------------------------------------------
(* BitSequence (scripts/jtag/bits.py): a width and an integer value; the   *)
(* first bit of the sequence is the most significant bit of the value.     *)

RECURSIVE IntOfBits(_)
IntOfBits(bits) ==
    IF bits = <<>> THEN 0
    ELSE 2 * IntOfBits(SubSeq(bits, 1, Len(bits) - 1)) + bits[Len(bits)]

\* BitSequence(iterable)
BitSequence(bits) == [width |-> Len(bits), value |-> IntOfBits(bits)]

\* iter(BitSequence): the bits in the order of the sequence
BitSeqBits(bs) ==
    [i \in 1..bs.width |-> (bs.value \div (2 ^ (bs.width - i))) % 2]

\* all sequences of bits of length n
BitLists(n) == [1..n -> {0, 1}]

-----------------------------------------------------------------------------
(* JtagStateMachine *)

InPath(x, path) == \E i \in 1..Len(path) : path[i] = x

\* the first candidate found, whatever its length
FirstOf(paths) == paths[1]

\* the last of the shortest candidates
LastShortestOf(paths) ==
    paths[CHOOSE i \in 1..Len(paths) :
            /\ \A j \in 1..Len(paths) : Len(paths[j]) >= Len(paths[i])
            /\ \A j \in (i + 1)..Len(paths) : Len(paths[j]) > Len(paths[i])]

\* min(((len(path), path) for path in paths), key=lambda x: x[0])[1]:
\* the first of the shortest candidates
ShortestOf(paths) ==
    paths[CHOOSE i \in 1..Len(paths) :
            /\ \A j \in 1..Len(paths) : Len(paths[j]) >= Len(paths[i])
            /\ \A j \in 1..(i - 1) : Len(paths[j]) > Len(paths[i])]

\* a search that returns the path walked so far, without the target reached
RECURSIVE next_path_no_target(_, _, _)
next_path_no_target(state, target, path) ==
    IF state = target THEN path
    ELSE LET try(xstate) ==
                 IF xstate = state \/ InPath(xstate, path) THEN <<>>
                 ELSE next_path_no_target(xstate, target, path \o <<state>>)
             npaths == <<try(exits(state)[1]), try(exits(state)[2])>>
             paths == SelectSeq(npaths, LAMBDA p : p # <<>>)
         IN  IF paths = <<>> THEN <<>> ELSE ShortestOf(paths)

\* find_path.next_path on states whose exits are x[state]: depth-first
\* enumeration of the loop-free paths, the exit of event 0 first
RECURSIVE next_path_in(_, _, _, _)
next_path_in(x, state, target, path) ==
    IF state = target THEN path \o <<state>>
    ELSE LET try(xstate) ==
                 IF xstate = state \/ InPath(xstate, path) THEN <<>>
                 ELSE next_path_in(x, xstate, target, path \o <<state>>)
             npaths == <<try(x[state][1]), try(x[state][2])>>
             paths == SelectSeq(npaths, LAMBDA p : p # <<>>)
         IN  IF paths = <<>> THEN <<>> ELSE ShortestOf(paths)

\* find_path.next_path on the states of the state machine
next_path(state, target, path) ==
    next_path_in([s \in States |-> exits(s)], state, target, path)

\* the result of next_path(source, target, []) for every pair of states:
\* the graph is fixed, so the search is evaluated once per pair
PathTable ==
    [source \in States |-> [target \in States |-> next_path(source, target, <<>>)]]

\* find_path(target, source), both given as state names
find_path(target, source) == PathTable[source][target]

\* events collected with the two exits taken in the other order
RECURSIVE PairEvents_inverted(_, _)
PairEvents_inverted(path, i) ==
    IF i >= Len(path) THEN <<>>
    ELSE LET x == exits(path[i])
         IN  (IF x[2] = path[i + 1] THEN <<0>> ELSE <<>>)
             \o (IF x[1] = path[i + 1] THEN <<1>> ELSE <<>>)
             \o PairEvents_inverted(path, i + 1)

\* the events get_events collects for the pairs i, i+1, ... of the path
RECURSIVE PairEvents(_, _)
PairEvents(path, i) ==
    IF i >= Len(path) THEN <<>>
    ELSE LET x == exits(path[i])
         IN  (IF x[1] = path[i + 1] THEN <<0>> ELSE <<>>)
             \o (IF x[2] = path[i + 1] THEN <<1>> ELSE <<>>)
             \o PairEvents(path, i + 1)

\* get_events whose length check expects one event per state of the path
get_events_len_check(path) ==
    LET events == PairEvents(path, 1)
    IN  [raised |-> Len(events) # Len(path),
         events |-> BitSequence(events)]

\* a get_events that accepts the empty path
get_events_accept_empty(path) ==
    LET events == PairEvents(path, 1)
    IN  [raised |-> path # <<>> /\ Len(events) # Len(path) - 1,
         events |-> BitSequence(events)]

\* get_events(path): raised is the JtagError("Invalid path")
get_events(path) ==
    LET events == PairEvents(path, 1)
    IN  [raised |-> Len(events) # Len(path) - 1,
         events |-> BitSequence(events)]

\* for event in events: self._current = self._current.getx(event)
RECURSIVE Replay(_, _)
Replay(s, bits) ==
    IF bits = <<>> THEN s
    ELSE Replay(getx(s, bits[1]), SubSeq(bits, 2, Len(bits)))

HasKey(cache, key) == key \in DOMAIN cache

\* a replay-cache key without the length of the sequence
Transit_no_len(cur, events) == <<cur, 0, events.value>>

\* a replay-cache key without the name of the current state
Transit_no_name(cur, events) == <<"", events.width, events.value>>

\* the key of the replay cache
Transit(cur, events) == <<cur, events.width, events.value>>

\* a handle_events whose cache keeps the last transit only
handle_events_single_entry(f, events) ==
    LET transit == Transit(f.current, events)
    IN  IF HasKey(f.tr_cache, transit)
        THEN [f EXCEPT !.current = f.tr_cache[transit]]
        ELSE LET c == Replay(f.current, BitSeqBits(events))
             IN  [current |-> c, tr_cache |-> (transit :> c)]

\* handle_events on the state machine f = [current, tr_cache]
handle_events(f, events) ==
    LET transit == Transit(f.current, events)
    IN  IF HasKey(f.tr_cache, transit)
        THEN [f EXCEPT !.current = f.tr_cache[transit]]
        ELSE LET c == Replay(f.current, BitSeqBits(events))
             IN  [current |-> c, tr_cache |-> (transit :> c) @@ f.tr_cache]

\* a reset that clocks five 1 events through handle_events
fsm_reset_by_events(f) == handle_events(f, BitSequence(<<1, 1, 1, 1, 1>>))

\* JtagStateMachine.reset
fsm_reset(f) == [f EXCEPT !.current = "test_logic_reset"]

EmptyCache == [k \in {} |-> k]

-----------------------------------------------------------------------------
(* The controller behind the engine. It is supplied by the caller; the     *)
(* physical TAP it drives follows the same IEEE-1149.1 table, one step per *)
(* mode-select bit clocked in.                                             *)

RECURSIVE TapClock(_, _)
TapClock(s, bits) ==
    IF bits = <<>> THEN s
    ELSE TapClock(exits(s)[bits[1] + 1], SubSeq(bits, 2, Len(bits)))

NoBits == BitSequence(<<>>)

\* a transport fault: the controller call number `at` of the operation raises
\* (none when at = 0); a failing write_tms has clocked `bits` bits by then, a
\* failing reset has reset the TAP by then iff bits > 0
NoFault == [at |-> 0, bits |-> 0]

\* the next controller call of the operation is the one that raises
Failing(m) == m.fault.at = Len(m.clog) + 1

\* the record of a controller call: the state machine and the TAP when it is
\* made, whether it raised, and for a read the length asked (bits is then
\* the answer)
CtrlCall(m, call, bits) ==
    [call |-> call, bits |-> bits, current |-> m.fsm.current, tap |-> m.tap,
     raised |-> Failing(m), length |-> 0]

\* how a method of the base class JtagController ends when it is called:
\* tap_reset, write_tms, write and read raise, system_reset and quit have a
\* docstring for body and return None, any other name is no attribute
JtagController(call) ==
    IF call \in {"tap_reset", "write_tms", "write", "read"}
    THEN "NotImplementedError"
    ELSE IF call \in {"system_reset", "quit"} THEN "ok"
    ELSE "AttributeError"

\* a call on a controller that is an instance of the base class
BaseCall(m, call, bits) ==
    [m EXCEPT !.clog = Append(m.clog, [CtrlCall(m, call, bits) EXCEPT
                                         !.raised = JtagController(call) # "ok"]),
              !.err = IF JtagController(call) = "ok" THEN m.err
                      ELSE JtagController(call)]

\* the first n elements of a sequence
FirstBits(bits, n) == SubSeq(bits, 1, IF n < Len(bits) THEN n ELSE Len(bits))

\* self._ctrl.write_tms(modesel)
ctrl_write_tms(m, modesel) ==
    IF m.base THEN BaseCall(m, "write_tms", modesel)
    ELSE IF Failing(m)
    THEN [m EXCEPT !.tap = TapClock(m.tap, FirstBits(BitSeqBits(modesel),
                                                     m.fault.bits)),
                   !.clog = Append(m.clog, CtrlCall(m, "write_tms", modesel)),
                   !.err = "TransportError"]
    ELSE [m EXCEPT !.tap = TapClock(m.tap, BitSeqBits(modesel)),
                   !.clog = Append(m.clog, CtrlCall(m, "write_tms", modesel))]

\* what write_tms and write leave of the sequence they are given: its content
\* may be consumed, i.e. emptied
Consumed(seq) == NoBits

\* self._ctrl.write(out)
ctrl_write(m, out) ==
    IF m.base THEN BaseCall(m, "write", out) ELSE
    [m EXCEPT !.clog = Append(m.clog, CtrlCall(m, "write", out)),
              !.err = IF Failing(m) THEN "TransportError" ELSE m.err]

\* self._ctrl.read(length), the device answering with bits
ctrl_read(m, length, bits) ==
    IF m.base THEN BaseCall(m, "read", NoBits) ELSE
    [m EXCEPT !.clog = Append(m.clog, [CtrlCall(m, "read", bits)
                                          EXCEPT !.length = length]),
              !.err = IF Failing(m) THEN "TransportError" ELSE m.err]

\* self._ctrl.reset()
ctrl_reset(m) ==
    IF m.base THEN BaseCall(m, "reset", NoBits) ELSE
    [m EXCEPT !.tap = IF Failing(m) /\ m.fault.bits = 0 THEN m.tap
                      ELSE "test_logic_reset",
              !.clog = Append(m.clog, CtrlCall(m, "reset", NoBits)),
              !.err = IF Failing(m) THEN "TransportError" ELSE m.err]

-----------------------------------------------------------------------------
(* JtagEngine, on the record m of the engine, its state machine and the    *)
(* controller: m.err is "ok" until a call raises.                          *)

\* the content of `events` when write_tms is given `events` itself
EventsAfterWriteNoCopy(events, handed) == handed

\* the content of `events` once write_tms(events.copy()) has returned, the
\* sequence handed over being left as `handed`: the controller was given a
\* copy, so `events` is as before
EventsAfterWrite(events, handed) == events

\* an engine-cache key made of the target name alone
Transition_target_only(cur, statename) == <<"", statename>>

\* the key of the engine cache: (self._fsm.state, statename)
Transition(cur, statename) == <<cur, statename>>

\* an end of change_state that updates the state machine before the TAP
advance_fsm_first(m1, transition, statename, hit, path, events) ==
    LET cur == m1.fsm.current
        f == handle_events(m1.fsm, events)
        m2 == ctrl_write_tms([m1 EXCEPT !.fsm = f], events)
    IN  IF m2.err # "ok" THEN m2
        ELSE [m2 EXCEPT
                !.cslog = Append(m1.cslog,
                    [source |-> cur, target |-> statename, hit |-> hit,
                     fsm_hit |-> HasKey(m1.fsm.tr_cache, Transit(cur, events)),
                     path |-> path, events |-> events,
                     logged |-> IF hit THEN <<>> ELSE Tail(path),
                     reached |-> f.current])]

\* the end of change_state: write_tms(events.copy()), then
\* handle_events(events.copy()); m1 is the engine once the cache is looked up
advance(m1, transition, statename, hit, path, events) ==
    LET m2 == ctrl_write_tms(m1, events)
    IN  IF m2.err # "ok" THEN m2
        ELSE
        LET cur == m1.fsm.current
            after == EventsAfterWrite(events, Consumed(events))
            m3 == [m2 EXCEPT !.cache[transition] = after]
            f == handle_events(m3.fsm, after)
        IN  [m3 EXCEPT
               !.fsm = f,
               !.cslog = Append(m1.cslog,
                   [source |-> cur, target |-> statename, hit |-> hit,
                    fsm_hit |-> HasKey(m1.fsm.tr_cache, Transit(cur, after)),
                    path |-> path, events |-> events,
                    logged |-> IF hit THEN <<>> ELSE Tail(path),
                    reached |-> f.current])]

\* a change_state that stores an empty sequence for the transition before it
\* looks the name up
change_state_store_first(m, statename) ==
    LET cur == m.fsm.current
        transition == Transition(cur, statename)
        hit == HasKey(m.cache, transition)
    IN  IF ~hit /\ statename \notin States
        THEN [m EXCEPT !.cache = (transition :> NoBits) @@ m.cache,
                       !.err = "KeyError"]
        ELSE
        LET path == IF hit THEN <<>> ELSE find_path(statename, cur)
            got == IF hit THEN [raised |-> FALSE, events |-> m.cache[transition]]
                   ELSE get_events(path)
        IN  IF got.raised
            THEN [m EXCEPT !.err = "JtagError"]
            ELSE
            LET events == got.events
                m1 == IF hit THEN m
                      ELSE [m EXCEPT !.cache = (transition :> events) @@ m.cache]
            IN  advance(m1, transition, statename, hit, path, events)

\* JtagEngine.change_state
change_state(m, statename) ==
    LET cur == m.fsm.current
        transition == Transition(cur, statename)
        hit == HasKey(m.cache, transition)
    IN  IF ~hit /\ statename \notin States
        THEN [m EXCEPT !.err = "KeyError"]
        ELSE
        LET path == IF hit THEN <<>> ELSE find_path(statename, cur)
            got == IF hit THEN [raised |-> FALSE, events |-> m.cache[transition]]
                   ELSE get_events(path)
        IN  IF got.raised
            THEN [m EXCEPT !.err = "JtagError"]
            ELSE
            LET events == got.events
                m1 == IF hit THEN m
                      ELSE [m EXCEPT !.cache = (transition :> events) @@ m.cache]
            IN  advance(m1, transition, statename, hit, path, events)

\* a reset of the controller that leaves the state machine as it is
engine_reset_ctrl_only(m, has_reset) ==
    IF ~has_reset THEN [m EXCEPT !.err = "AttributeError"]
    ELSE ctrl_reset(m)

\* a reset that resets the state machine before the controller
engine_reset_fsm_first(m, has_reset) ==
    IF ~has_reset THEN [m EXCEPT !.err = "AttributeError"]
    ELSE ctrl_reset([m EXCEPT !.fsm = fsm_reset(m.fsm)])

\* a reset that also empties the engine cache
engine_reset_clear_cache(m, has_reset) ==
    IF ~has_reset THEN [m EXCEPT !.err = "AttributeError"]
    ELSE LET m1 == ctrl_reset(m)
         IN  IF m1.err # "ok" THEN m1
             ELSE [m1 EXCEPT !.fsm = fsm_reset(m1.fsm), !.cache = EmptyCache]

\* JtagEngine.reset
engine_reset(m, has_reset) ==
    IF ~has_reset THEN [m EXCEPT !.err = "AttributeError"]
    ELSE LET m1 == ctrl_reset(m)
         IN  IF m1.err # "ok" THEN m1
             ELSE [m1 EXCEPT !.fsm = fsm_reset(m1.fsm)]

\* a write_ir that walks the data register states
write_ir_dr_states(m, instruction) ==
    LET m1 == change_state(m, "shift_dr")
    IN  IF m1.err # "ok" THEN m1
        ELSE LET m2 == ctrl_write(m1, instruction)
             IN  IF m2.err # "ok" THEN m2 ELSE change_state(m2, "update_dr")

\* JtagEngine.write_ir
write_ir(m, instruction) ==
    LET m1 == change_state(m, "shift_ir")
    IN  IF m1.err # "ok" THEN m1
        ELSE LET m2 == ctrl_write(m1, instruction)
             IN  IF m2.err # "ok" THEN m2 ELSE change_state(m2, "update_ir")

\* a write_dr that writes the data once the update state is reached
write_dr_late_write(m, data) ==
    LET m1 == change_state(m, "shift_dr")
    IN  IF m1.err # "ok" THEN m1
        ELSE LET m2 == change_state(m1, "update_dr")
             IN  IF m2.err # "ok" THEN m2 ELSE ctrl_write(m2, data)

\* JtagEngine.write_dr
write_dr(m, data) ==
    LET m1 == change_state(m, "shift_dr")
    IN  IF m1.err # "ok" THEN m1
        ELSE LET m2 == ctrl_write(m1, data)
             IN  IF m2.err # "ok" THEN m2 ELSE change_state(m2, "update_dr")

\* a read_dr that returns an empty sequence instead of the data read
read_dr_no_data(m, length, answer) ==
    LET m1 == change_state(m, "shift_dr")
    IN  IF m1.err # "ok" THEN m1
        ELSE LET m2 == ctrl_read(m1, length, answer)
             IN  IF m2.err # "ok" THEN m2
                 ELSE change_state(m2, "update_dr")

\* a read_dr that goes on to update_dr when the read has raised, and raises
\* afterwards
read_dr_update_after_failure(m, length, answer) ==
    LET m1 == change_state(m, "shift_dr")
    IN  IF m1.err # "ok" THEN m1
        ELSE LET m2 == ctrl_read(m1, length, answer)
                 m3 == change_state([m2 EXCEPT !.err = "ok"], "update_dr")
             IN  IF m2.err # "ok" THEN [m3 EXCEPT !.err = m2.err]
                 ELSE IF m3.err # "ok" THEN m3
                 ELSE [m3 EXCEPT !.ret = answer]

\* JtagEngine.read_dr: m.ret is the value returned, the controller answering
\* the read with `answer`
read_dr(m, length, answer) ==
    LET m1 == change_state(m, "shift_dr")
    IN  IF m1.err # "ok" THEN m1
        ELSE LET m2 == ctrl_read(m1, length, answer)
             IN  IF m2.err # "ok" THEN m2
                 ELSE LET m3 == change_state(m2, "update_dr")
                      IN  IF m3.err # "ok" THEN m3
                          ELSE [m3 EXCEPT !.ret = answer]

-----------------------------------------------------------------------------
(* The calls that only read: each gives the state machine after the call   *)
(* and the value returned.                                                 *)

\* JtagState.modes, as written in JtagStateMachine.__init__
modes(s) ==
    CASE s = "test_logic_reset" -> {"reset", " idle"}
      [] s = "run_test_idle"    -> {"idle"}
      [] s = "select_dr_scan"   -> {"dr"}
      [] s = "capture_dr"       -> {"dr", "shift", "capture"}
      [] s = "shift_dr"         -> {"dr", "shift"}
      [] s = "exit_1_dr"        -> {"dr", "update", "pause"}
      [] s = "pause_dr"         -> {"dr", "pause"}
      [] s = "exit_2_dr"        -> {"dr", "shift", "udpate"}
      [] s = "update_dr"        -> {"dr", "idle"}
      [] s = "select_ir_scan"   -> {"ir"}
      [] s = "capture_ir"       -> {"ir", "shift", "capture"}
      [] s = "shift_ir"         -> {"ir", "shift"}
      [] s = "exit_1_ir"        -> {"ir", "udpate", "pause"}
      [] s = "pause_ir"         -> {"ir", "pause"}
      [] s = "exit_2_ir"        -> {"ir", "shift", "update"}
      [] s = "update_ir"        -> {"ir", "idle"}

\* JtagState.is_of
is_of(s, mode) == mode \in modes(s)

\* JtagStateMachine.state_of
state_of(f, mode) == [fsm |-> f, ret |-> is_of(f.current, mode)]

\* JtagEngine.get_available_statenames
get_available_statenames(f) == [fsm |-> f, ret |-> StateNames]

\* a find_path that leaves the state machine in the target
fsm_find_path_moving(f, target) ==
    [fsm |-> [f EXCEPT !.current = target],
     ret |-> find_path(target, f.current)]

\* JtagStateMachine.find_path(target), from the current state
fsm_find_path(f, target) == [fsm |-> f, ret |-> find_path(target, f.current)]

\* JtagStateMachine.get_events(path), called on the state machine
fsm_get_events(f, path) == [fsm |-> f, ret |-> get_events(path)]

-----------------------------------------------------------------------------
(* Construction: the objects an engine and its state machine hold by       *)
(* reference live in a heap, a function from references to values.         *)

\* the exits of every state once __init__ has called setx on each
Wiring == [s \in States |-> exits(s)]

\* a class attribute: one object per attribute, whatever the instance
ClassRef(heap, attr) ==
    CASE attr = "states" -> 1 [] attr = "fsm_tr_cache" -> 2
      [] attr = "eng_tr_cache" -> 3

\* the reference of the object a `{}` evaluated in __init__ creates
FreshRef(heap, attr) == Cardinality(DOMAIN heap) + 1

Store(heap, ref, value) ==
    IF ref \in DOMAIN heap THEN [heap EXCEPT ![ref] = value]
    ELSE (ref :> value) @@ heap

\* JtagStateMachine.__init__
NewStateMachine(heap) ==
    LET states == FreshRef(heap, "states")
        h1 == Store(heap, states, Wiring)
        cache == FreshRef(h1, "fsm_tr_cache")
    IN  [heap |-> Store(h1, cache, EmptyCache),
         obj |-> [current |-> "test_logic_reset", states |-> states,
                  tr_cache |-> cache]]

\* JtagEngine.__init__
NewEngine(heap) ==
    LET fsm == NewStateMachine(heap)
        cache == FreshRef(fsm.heap, "eng_tr_cache")
    IN  [heap |-> Store(fsm.heap, cache, EmptyCache),
         obj |-> [fsm |-> fsm.obj, cache |-> cache,
                  tap |-> "test_logic_reset"]]

\* what an engine is made of, the objects it refers to read from the heap
View(heap, e) ==
    [current |-> e.fsm.current, exits |-> heap[e.fsm.states],
     tr_cache |-> heap[e.fsm.tr_cache], cache |-> heap[e.cache],
     tap |-> e.tap]

\* JtagEngine(ctrl1), then JtagEngine(ctrl2)
TwoEngines ==
    LET first == NewEngine(EmptyCache)
        second == NewEngine(first.heap)
        alone == View(NewEngine(EmptyCache).heap, NewEngine(EmptyCache).obj)
    IN  [heap |-> second.heap, eng |-> <<first.obj, second.obj>>,
         solo |-> <<alone, alone>>]

\* the engine of a view, before an operation
ViewMachine(v) ==
    [fsm |-> [current |-> v.current, tr_cache |-> v.tr_cache],
     cache |-> v.cache, tap |-> v.tap, clog |-> <<>>, cslog |-> <<>>,
     err |-> "ok", ret |-> NoBits, fault |-> NoFault, base |-> FALSE]

\* the view once the operation has left the engine as m
ViewAfter(v, m) ==
    [v EXCEPT !.current = m.fsm.current, !.tr_cache = m.fsm.tr_cache,
              !.cache = m.cache, !.tap = m.tap]

\* the pair once an operation has left engine n as m, and the engine run
\* alone as s
PairAfter(n, m, s) ==
    LET e == pair.eng[n]
    IN  [heap |-> Store(Store(pair.heap, e.fsm.tr_cache, m.fsm.tr_cache),
                        e.cache, m.cache),
         eng |-> [pair.eng EXCEPT ![n].fsm.current = m.fsm.current,
                                  ![n].tap = m.tap],
         solo |-> [pair.solo EXCEPT ![n] = ViewAfter(@, s)]]

-----------------------------------------------------------------------------
(* The operations as actions *)

\* inputs of the operations
InvalidNames == {"no_such_state"}
DataValues == {BitSequence(<<1, 0, 1>>), BitSequence(<<0>>)}
ReadLengths == {2}

NoCall == [stage |-> "none", source |-> "test_logic_reset",
           target |-> "test_logic_reset", path |-> <<>>, raised |-> FALSE,
           events |-> NoBits]

NoOp == [op |-> "none", target |-> "", data |-> NoBits, status |-> "ok",
         src |-> "test_logic_reset", hit |-> FALSE, ret |-> NoBits,
         length |-> 0]

\* an operation called in the current state; hit tells whether a direct
\* handle_events found its key in the replay cache, ret is the value
\* returned, length the length asked of read_dr
Op(name, target, data) ==
    [op |-> name, target |-> target, data |-> data, status |-> "ok",
     src |-> current, hit |-> FALSE, ret |-> NoBits, length |-> 0]

\* first_tms after the change_state calls of cslog
RECURSIVE RecordFirst(_, _)
RecordFirst(first, cslog) ==
    IF cslog = <<>> THEN first
    ELSE LET r == Head(cslog)
             key == <<r.source, r.target>>
         IN  RecordFirst(IF key \in DOMAIN first THEN first
                         ELSE (key :> r.events) @@ first, Tail(cslog))

NoRecovery == [recovered |-> FALSE, failed |-> FALSE]

\* recovery after the operation op has left the engine as m
RecordRecovery(m, op) ==
    IF op.op = "reset" /\ m.err = "ok"
    THEN [recovered |-> recovery.recovered \/ tap # current, failed |-> FALSE]
    ELSE [recovery EXCEPT !.failed = @ \/ m.err = "TransportError"]

\* the engine before an operation
Machine ==
    [fsm |-> [current |-> current, tr_cache |-> tr_cache],
     cache |-> eng_cache, tap |-> tap, clog |-> <<>>, cslog |-> <<>>,
     err |-> "ok", ret |-> NoBits, fault |-> NoFault, base |-> FALSE]

\* Commit with the state left rewired to the state reached, as if moving
\* called setx
Commit_rewired(m, op) ==
    /\ current' = m.fsm.current
    /\ tr_cache' = m.fsm.tr_cache
    /\ eng_cache' = m.cache
    /\ tap' = m.tap
    /\ ctrl_log' = m.clog
    /\ cs_log' = m.cslog
    /\ last_op' = [op EXCEPT !.status = m.err, !.ret = m.ret]
    /\ nops' = nops + 1
    /\ first_tms' = RecordFirst(first_tms, m.cslog)
    /\ recovery' = RecordRecovery(m, op)
    /\ graph' = [graph EXCEPT ![current] = <<m.fsm.current, m.fsm.current>>]
    /\ UNCHANGED <<ctrl_has_reset, pair, frames, fp>>

\* the engine after an operation: no operation calls setx or writes to
\* states, so the graph and the objects of other engines are as before
Commit(m, op) ==
    /\ current' = m.fsm.current
    /\ tr_cache' = m.fsm.tr_cache
    /\ eng_cache' = m.cache
    /\ tap' = m.tap
    /\ ctrl_log' = m.clog
    /\ cs_log' = m.cslog
    /\ last_op' = [op EXCEPT !.status = m.err, !.ret = m.ret]
    /\ nops' = nops + 1
    /\ first_tms' = RecordFirst(first_tms, m.cslog)
    /\ recovery' = RecordRecovery(m, op)
    /\ UNCHANGED <<ctrl_has_reset, pair, graph, frames, fp>>

Init ==
    /\ current = "test_logic_reset"
    /\ tr_cache = EmptyCache
    /\ eng_cache = EmptyCache
    /\ tap = "test_logic_reset"
    /\ ctrl_has_reset = TRUE
    /\ ctrl_log = <<>>
    /\ cs_log = <<>>
    /\ last_op = NoOp
    /\ nops = 0
    /\ first_tms = EmptyCache
    /\ recovery = NoRecovery
    /\ pair = TwoEngines
    /\ graph = Wiring
    /\ frames = <<>>
    /\ fp = NoCall

Reset ==
    /\ nops < MaxOps
    /\ Commit(engine_reset(Machine, ctrl_has_reset), Op("reset", "", NoBits))

ChangeState(statename) ==
    /\ nops < MaxOps
    /\ Commit(change_state(Machine, statename),
              Op("change_state", statename, NoBits))

GoIdle ==
    /\ nops < MaxOps
    /\ Commit(change_state(Machine, "run_test_idle"), Op("go_idle", "", NoBits))

Run ==
    /\ nops < MaxOps
    /\ Commit(change_state(Machine, "run_test_idle"), Op("run", "", NoBits))

CaptureIr ==
    /\ nops < MaxOps
    /\ Commit(change_state(Machine, "capture_ir"), Op("capture_ir", "", NoBits))

CaptureDr ==
    /\ nops < MaxOps
    /\ Commit(change_state(Machine, "capture_dr"), Op("capture_dr", "", NoBits))

WriteIr(instruction) ==
    /\ nops < MaxOps
    /\ Commit(write_ir(Machine, instruction), Op("write_ir", "", instruction))

WriteDr(data) ==
    /\ nops < MaxOps
    /\ Commit(write_dr(Machine, data), Op("write_dr", "", data))

ReadDr(length) ==
    /\ nops < MaxOps
    /\ \E answer \in BitLists(length) :
         Commit(read_dr(Machine, length, BitSequence(answer)),
                [Op("read_dr", "", NoBits) EXCEPT !.length = length])

Next ==
    \/ Reset
    \/ \E statename \in States \cup InvalidNames : ChangeState(statename)
    \/ GoIdle
    \/ Run
    \/ CaptureIr
    \/ CaptureDr
    \/ \E instruction \in DataValues : WriteIr(instruction)
    \/ \E data \in DataValues : WriteDr(data)
    \/ \E length \in ReadLengths : ReadDr(length)

Spec == Init /\ [][Next]_vars

-----------------------------------------------------------------------------
(* A state machine used on its own: handle_events, reset, and the round    *)
(* trip handle_events(get_events(find_path(target))) from the current      *)
(* state.                                                                  *)

FsmCommit(f, op) ==
    /\ current' = f.current
    /\ tr_cache' = f.tr_cache
    /\ last_op' = op
    /\ nops' = nops + 1
    /\ UNCHANGED engine_vars

Fsm == [current |-> current, tr_cache |-> tr_cache]

FsmHandleEvents(bits) ==
    /\ nops < MaxFsmOps
    /\ LET events == BitSequence(bits)
       IN  FsmCommit(handle_events(Fsm, events),
                     [Op("handle_events", "", events) EXCEPT
                        !.hit = HasKey(tr_cache, Transit(current, events))])
    /\ fp' = NoCall

FsmReset ==
    /\ nops < MaxFsmOps
    /\ FsmCommit(fsm_reset(Fsm), Op("fsm_reset", "", NoBits))
    /\ fp' = NoCall

FsmRoundTrip(target) ==
    /\ nops < MaxFsmOps
    /\ LET path == find_path(target, current)
           got == get_events(path)
       IN  /\ fp' = [stage |-> "round_trip", source |-> current,
                     target |-> target, path |-> path, raised |-> got.raised,
                     events |-> got.events]
           /\ IF got.raised
              THEN FsmCommit(Fsm, [Op("round_trip", target, NoBits)
                                     EXCEPT !.status = "JtagError"])
              ELSE FsmCommit(handle_events(Fsm, got.events),
                             Op("round_trip", target, got.events))

NextFsm ==
    \/ \E n \in 0..MaxEvLen : \E bits \in BitLists(n) : FsmHandleEvents(bits)
    \/ FsmReset
    \/ \E target \in States : FsmRoundTrip(target)

SpecFsm == Init /\ [][NextFsm]_vars

-----------------------------------------------------------------------------
(* find_path and get_events called on a pair of states *)

InitPath ==
    /\ current = "test_logic_reset"
    /\ tr_cache = EmptyCache
    /\ eng_cache = EmptyCache
    /\ tap = "test_logic_reset"
    /\ ctrl_has_reset = TRUE
    /\ ctrl_log = <<>>
    /\ cs_log = <<>>
    /\ last_op = NoOp
    /\ nops = 0
    /\ first_tms = EmptyCache
    /\ recovery = NoRecovery
    /\ pair = TwoEngines
    /\ graph = Wiring
    /\ frames = <<>>
    /\ \E source \in States, target \in States :
         fp = [NoCall EXCEPT !.stage = "call", !.source = source,
                             !.target = target]

FindPath ==
    /\ fp.stage = "call"
    /\ fp' = [fp EXCEPT !.stage = "path",
                        !.path = find_path(fp.target, fp.source)]
    /\ UNCHANGED <<current, tr_cache, last_op, nops, engine_vars>>

GetEvents ==
    /\ fp.stage = "path"
    /\ LET got == get_events(fp.path)
       IN  fp' = [fp EXCEPT !.stage = "events", !.raised = got.raised,
                            !.events = got.events]
    /\ UNCHANGED <<current, tr_cache, last_op, nops, engine_vars>>

NextPath == FindPath \/ GetEvents

SpecPath == InitPath /\ [][NextPath]_vars

-----------------------------------------------------------------------------
(* The engine with a transport that can fail: a controller call of the     *)
(* operation raises, a write_tms after clocking some of its bits.          *)

\* operations called on one engine whose transport can fail
MaxFailOps == 2

\* operations called on one engine in the runs about recovery
MaxRecoverOps == 4

\* the number of bits a failing write_tms has clocked (at most the length of
\* its sequence); for a failing reset, whether the TAP was reset (> 0)
PartialCounts == {0, 2}

\* the faults of an operation whose controller calls are the given ones
Faults(calls) ==
    {NoFault} \cup
    {f \in [at : 1..Len(calls), bits : PartialCounts] :
        calls[f.at] \in {"write", "read"} => f.bits = 0}

FaultyMachine(fault) == [Machine EXCEPT !.fault = fault]

FaultyReset(limit, fault) ==
    /\ nops < limit
    /\ Commit(engine_reset(FaultyMachine(fault), ctrl_has_reset),
              Op("reset", "", NoBits))

FaultyChangeState(limit, statename, fault) ==
    /\ nops < limit
    /\ Commit(change_state(FaultyMachine(fault), statename),
              Op("change_state", statename, NoBits))

FaultyWriteIr(limit, instruction, fault) ==
    /\ nops < limit
    /\ Commit(write_ir(FaultyMachine(fault), instruction),
              Op("write_ir", "", instruction))

FaultyWriteDr(limit, data, fault) ==
    /\ nops < limit
    /\ Commit(write_dr(FaultyMachine(fault), data), Op("write_dr", "", data))

FaultyReadDr(limit, length, fault) ==
    /\ nops < limit
    /\ \E answer \in BitLists(length) :
         Commit(read_dr(FaultyMachine(fault), length, BitSequence(answer)),
                [Op("read_dr", "", NoBits) EXCEPT !.length = length])

FaultData == {BitSequence(<<1, 0, 1>>)}

\* targets of change_state on the engine whose transport can fail
FailTargets ==
    {"test_logic_reset", "run_test_idle", "shift_dr", "pause_dr", "shift_ir",
     "update_ir"}

NextFail ==
    \/ \E fault \in Faults(<<"reset">>) : FaultyReset(MaxFailOps, fault)
    \/ \E statename \in FailTargets, fault \in Faults(<<"write_tms">>) :
          FaultyChangeState(MaxFailOps, statename, fault)
    \/ \E instruction \in FaultData,
          fault \in Faults(<<"write_tms", "write", "write_tms">>) :
          FaultyWriteIr(MaxFailOps, instruction, fault)
    \/ \E data \in FaultData,
          fault \in Faults(<<"write_tms", "write", "write_tms">>) :
          FaultyWriteDr(MaxFailOps, data, fault)
    \/ \E length \in ReadLengths,
          fault \in Faults(<<"write_tms", "read", "write_tms">>) :
          FaultyReadDr(MaxFailOps, length, fault)

SpecFail == Init /\ [][NextFail]_vars

\* targets of change_state in the runs about recovery
RecoverTargets == {"test_logic_reset", "run_test_idle", "shift_dr"}

NextRecover ==
    \/ \E fault \in Faults(<<"reset">>) : FaultyReset(MaxRecoverOps, fault)
    \/ \E statename \in RecoverTargets, fault \in Faults(<<"write_tms">>) :
          FaultyChangeState(MaxRecoverOps, statename, fault)

SpecRecover == Init /\ [][NextRecover]_vars

-----------------------------------------------------------------------------
(* The engine over a controller that is an instance of the base class      *)
(* JtagController, and the methods of that controller called directly.     *)

\* operations called on the engine over the base controller
MaxBaseOps == 2

\* the methods JtagController declares
ControllerOps ==
    {"tap_reset", "system_reset", "quit", "write_tms", "write", "read"}

BaseMachine == [Machine EXCEPT !.base = TRUE]

InitBase ==
    /\ current = "test_logic_reset"
    /\ tr_cache = EmptyCache
    /\ eng_cache = EmptyCache
    /\ tap = "test_logic_reset"
    /\ ctrl_has_reset = FALSE
    /\ ctrl_log = <<>>
    /\ cs_log = <<>>
    /\ last_op = NoOp
    /\ nops = 0
    /\ first_tms = EmptyCache
    /\ recovery = NoRecovery
    /\ pair = TwoEngines
    /\ graph = Wiring
    /\ frames = <<>>
    /\ fp = NoCall

\* engine.controller.<call>(...)
BaseCtrlCall(call) ==
    /\ nops < MaxBaseOps
    /\ Commit(BaseCall(BaseMachine, call, NoBits), Op("ctrl_call", call, NoBits))

BaseChangeState(statename) ==
    /\ nops < MaxBaseOps
    /\ Commit(change_state(BaseMachine, statename),
              Op("change_state", statename, NoBits))

BaseReset ==
    /\ nops < MaxBaseOps
    /\ Commit(engine_reset(BaseMachine, ctrl_has_reset), Op("reset", "", NoBits))

NextBase ==
    \/ \E call \in ControllerOps : BaseCtrlCall(call)
    \/ \E statename \in States : BaseChangeState(statename)
    \/ BaseReset

SpecBase == InitBase /\ [][NextBase]_vars

-----------------------------------------------------------------------------
(* Two engines, each with its own controller, used in turn *)

\* operations called on the two engines together
MaxPairOps == 3

\* targets of change_state on the two engines
PairTargets == {"run_test_idle", "shift_dr", "pause_ir", "update_ir"}

PairCommit(n, m, s) ==
    /\ pair' = PairAfter(n, m, s)
    /\ nops' = nops + 1
    /\ UNCHANGED <<current, tr_cache, eng_cache, tap, ctrl_has_reset,
                   ctrl_log, cs_log, last_op, first_tms, recovery, graph,
                   frames, fp>>

PairChangeState(n, statename) ==
    /\ nops < MaxPairOps
    /\ PairCommit(n,
          change_state(ViewMachine(View(pair.heap, pair.eng[n])), statename),
          change_state(ViewMachine(pair.solo[n]), statename))

PairReset(n) ==
    /\ nops < MaxPairOps
    /\ PairCommit(n,
          engine_reset(ViewMachine(View(pair.heap, pair.eng[n])), TRUE),
          engine_reset(ViewMachine(pair.solo[n]), TRUE))

NextPair ==
    \/ \E n \in {1, 2}, statename \in PairTargets : PairChangeState(n, statename)
    \/ \E n \in {1, 2} : PairReset(n)

SpecPair == Init /\ [][NextPair]_vars

-----------------------------------------------------------------------------
(* The engine operations together with the calls that only read *)

\* targets of change_state and find_path between the calls that only read
FrameTargets == {"run_test_idle", "shift_dr", "exit_1_ir", "update_ir"}

\* modes asked of state_of
FrameModes == {"idle", "shift", "update"}

QueryOps == {"find_path", "get_events", "state_of", "get_available_statenames"}

\* a call that only reads has left the state machine as q.fsm and returned
\* q.ret
QueryCommit(q, name, target) ==
    /\ FsmCommit(q.fsm, [Op(name, target, NoBits) EXCEPT !.ret = q.ret])
    /\ fp' = NoCall

FrameFindPath(target) ==
    /\ nops < MaxOps
    /\ QueryCommit(fsm_find_path(Fsm, target), "find_path", target)

FrameGetEvents(target) ==
    /\ nops < MaxOps
    /\ QueryCommit(fsm_get_events(Fsm, find_path(target, current)),
                   "get_events", target)

FrameStateOf(mode) ==
    /\ nops < MaxOps
    /\ QueryCommit(state_of(Fsm, mode), "state_of", mode)

FrameStatenames ==
    /\ nops < MaxOps
    /\ QueryCommit(get_available_statenames(Fsm),
                   "get_available_statenames", "")

NextFrame ==
    \/ Reset
    \/ \E statename \in FrameTargets : ChangeState(statename)
    \/ \E data \in FaultData : WriteIr(data)
    \/ \E data \in FaultData : WriteDr(data)
    \/ \E length \in ReadLengths : ReadDr(length)
    \/ \E target \in FrameTargets : FrameFindPath(target)
    \/ \E target \in FrameTargets : FrameGetEvents(target)
    \/ \E mode \in FrameModes : FrameStateOf(mode)
    \/ FrameStatenames

SpecFrame == Init /\ [][NextFrame]_vars

-----------------------------------------------------------------------------
(* get_events called on any sequence of states, well formed or not *)

\* the longest sequence of states get_events is called on
MaxPathLen == 3

\* the sequences of at most n states
PathsUpTo(n) == UNION {[1..k -> States] : k \in 0..n}

InitEvents ==
    /\ current = "test_logic_reset"
    /\ tr_cache = EmptyCache
    /\ eng_cache = EmptyCache
    /\ tap = "test_logic_reset"
    /\ ctrl_has_reset = TRUE
    /\ ctrl_log = <<>>
    /\ cs_log = <<>>
    /\ last_op = NoOp
    /\ nops = 0
    /\ first_tms = EmptyCache
    /\ recovery = NoRecovery
    /\ pair = TwoEngines
    /\ graph = Wiring
    /\ frames = <<>>
    /\ \E path \in PathsUpTo(MaxPathLen) :
         fp = [NoCall EXCEPT !.stage = "path", !.path = path]

NextEvents == GetEvents

SpecEvents == InitEvents /\ [][NextEvents]_vars

-----------------------------------------------------------------------------
(* find_path on small graphs: every wiring of four states, where several   *)
(* shortest paths can exist.                                               *)

TieNodes == {1, 2, 3, 4}

\* the search goes from the first node to the last one
TieSource == 1
TieTarget == 4

InitTie ==
    /\ current = "test_logic_reset"
    /\ tr_cache = EmptyCache
    /\ eng_cache = EmptyCache
    /\ tap = "test_logic_reset"
    /\ ctrl_has_reset = TRUE
    /\ ctrl_log = <<>>
    /\ cs_log = <<>>
    /\ last_op = NoOp
    /\ nops = 0
    /\ first_tms = EmptyCache
    /\ recovery = NoRecovery
    /\ pair = TwoEngines
    /\ graph \in [TieNodes -> TieNodes \X TieNodes]
    /\ frames = <<>>
    /\ fp = [NoCall EXCEPT !.stage = "call", !.source = TieSource,
                           !.target = TieTarget]

TieFindPath ==
    /\ fp.stage = "call"
    /\ fp' = [fp EXCEPT !.stage = "path",
                        !.path = next_path_in(graph, fp.source, fp.target, <<>>)]
    /\ UNCHANGED <<current, tr_cache, last_op, nops, engine_vars>>

NextTie == TieFindPath

SpecTie == InitTie /\ [][NextTie]_vars

-----------------------------------------------------------------------------
(* find_path.next_path step by step: one step per test, call or return of   *)
(* the recursive search, on the call stack frames.                          *)

\* calls of next_path in progress beyond which the model makes no further
\* call
MaxDepth == 17

\* a search that kills a path on a loop around only
Killed_loop_around_only(xstate, state, path) == xstate = state

\* the two `continue` tests of next_path: the next state is the state itself
\* (loop around) or is already in the upstream path (loop back)
Killed(xstate, state, path) == xstate = state \/ InPath(xstate, path)

\* the frame of a call next_path(state, target, path): i is the exit the
\* for loop examines next, paths the candidates appended so far
Frame(state, path) == [state |-> state, path |-> path, i |-> 1, paths |-> <<>>]

Top == frames[Len(frames)]

\* the stack without its innermost frame
Caller == SubSeq(frames, 1, Len(frames) - 1)

\* the innermost call returns npath: the caller appends it if it is not
\* empty and goes on with its next exit; the outermost call returns it to
\* find_path
Return(npath) ==
    IF Len(frames) = 1
    THEN /\ frames' = <<>>
         /\ fp' = [fp EXCEPT !.stage = "path", !.path = npath]
    ELSE /\ frames' = [Caller EXCEPT
                         ![Len(Caller)].i = @ + 1,
                         ![Len(Caller)].paths =
                             IF npath = <<>> THEN @ ELSE Append(@, npath)]
         /\ UNCHANGED fp

SearchVars ==
    <<current, tr_cache, eng_cache, tap, ctrl_has_reset, ctrl_log, cs_log,
      last_op, nops, first_tms, recovery, pair, graph>>

\* return next_path(source, target, [])
SearchStart ==
    /\ fp.stage = "call"
    /\ frames' = <<Frame(fp.source, <<>>)>>
    /\ fp' = [fp EXCEPT !.stage = "search"]
    /\ UNCHANGED SearchVars

\* if state == target: return path+[state]
SearchFound ==
    /\ fp.stage = "search"
    /\ Top.state = fp.target
    /\ Return(Top.path \o <<Top.state>>)
    /\ UNCHANGED SearchVars

\* for xstate in state.exits: ... continue
SearchKill ==
    /\ fp.stage = "search"
    /\ Top.state # fp.target
    /\ Top.i <= 2
    /\ Killed(graph[Top.state][Top.i], Top.state, Top.path)
    /\ frames' = [frames EXCEPT ![Len(frames)].i = @ + 1]
    /\ UNCHANGED <<fp, SearchVars>>

\* npath = next_path(xstate, target, path + [state])
SearchCall ==
    /\ fp.stage = "search"
    /\ Top.state # fp.target
    /\ Top.i <= 2
    /\ ~Killed(graph[Top.state][Top.i], Top.state, Top.path)
    /\ Len(frames) < MaxDepth
    /\ frames' = Append(frames, Frame(graph[Top.state][Top.i],
                                      Top.path \o <<Top.state>>))
    /\ UNCHANGED <<fp, SearchVars>>

\* return min(...)[1] if paths else []
SearchReturn ==
    /\ fp.stage = "search"
    /\ Top.state # fp.target
    /\ Top.i > 2
    /\ Return(IF Top.paths = <<>> THEN <<>> ELSE ShortestOf(Top.paths))
    /\ UNCHANGED SearchVars

NextSearch ==
    SearchStart \/ SearchFound \/ SearchKill \/ SearchCall \/ SearchReturn

\* the interpreter takes the next step of the search as long as there is one
SpecSearch == InitPath /\ [][NextSearch]_vars /\ WF_vars(NextSearch)

-----------------------------------------------------------------------------
(* The engine used through reset and the operations named after what they   *)
(* do, without change_state called directly.                                *)

NextHigh ==
    \/ Reset
    \/ GoIdle
    \/ Run
    \/ CaptureIr
    \/ CaptureDr
    \/ \E instruction \in DataValues : WriteIr(instruction)
    \/ \E data \in DataValues : WriteDr(data)
    \/ \E length \in ReadLengths : ReadDr(length)

SpecHigh == Init /\ [][NextHigh]_vars

-----------------------------------------------------------------------------
(* A state machine taken to any state and given five 1 events, the          *)
(* sequence that resets a TAP from any state.                               *)

\* operations called on the state machine given five 1 events
MaxFiveOps == 4

FiveOnes == BitSequence(<<1, 1, 1, 1, 1>>)

\* handle_events(BitSequence('11111'))
FsmFiveOnes ==
    /\ nops < MaxFiveOps
    /\ FsmCommit(handle_events(Fsm, FiveOnes),
                 [Op("handle_events", "", FiveOnes) EXCEPT
                    !.hit = HasKey(tr_cache, Transit(current, FiveOnes))])
    /\ fp' = NoCall

NextFive ==
    \/ \E target \in States : FsmRoundTrip(target)
    \/ FsmFiveOnes

SpecFive == Init /\ [][NextFive]_vars

-----------------------------------------------------------------------------
(* Properties *)

Completed(opname) == last_op.op = opname /\ last_op.status = "ok"

\* C1: every change_state(X) that completes leaves the state machine in X:
\* each change_state call of the last operation reached its target, and after
\* a completed change_state operation the current state is the target named,
\* on an engine-cache hit or miss and on a replay-cache hit or miss.
C1_ChangeStateReachesTarget ==
    /\ \A i \in DOMAIN cs_log : cs_log[i].reached = cs_log[i].target
    /\ Completed("change_state") => current = last_op.target

\* a change_state served by both caches, from a state other than the reset
\* state to another state
C1_Witness ==
    /\ Completed("change_state")
    /\ Len(cs_log) = 1
    /\ cs_log[1].hit /\ cs_log[1].fsm_hit
    /\ last_op.src \notin {"test_logic_reset", last_op.target}
    /\ current = last_op.target

\* C2: after every engine operation that completes without error the physical
\* TAP, which steps on the bits given to write_tms and returns to
\* test_logic_reset on a controller reset, is in the state machine's current
\* state.
C2_TapFollowsStateMachine == last_op.status = "ok" => tap = current

\* a third write_dr, whose first change_state is served by the engine cache
C2_Witness ==
    /\ Completed("write_dr")
    /\ nops = 3
    /\ cs_log[1].hit
    /\ tap = "update_dr" /\ current = "update_dr"

\* C3: round trip: handle_events(get_events(find_path(target, source))) called
\* in the state source leaves the state machine in target.
C3_RoundTrip ==
    fp.stage = "round_trip" =>
        /\ ~fp.raised
        /\ last_op.status = "ok"
        /\ current = fp.target

\* a round trip from shift_ir to pause_dr
C3_Witness ==
    /\ fp.stage = "round_trip"
    /\ fp.source = "shift_ir" /\ fp.target = "pause_dr"
    /\ ~fp.raised
    /\ current = "pause_dr"

\* the table of section 4.2 of the specification: state |-> <<on 0, on 1>>
Ieee1149Table ==
    [s \in States |->
        CASE s = "test_logic_reset" -> <<"run_test_idle", "test_logic_reset">>
          [] s = "run_test_idle"    -> <<"run_test_idle", "select_dr_scan">>
          [] s = "select_dr_scan"   -> <<"capture_dr", "select_ir_scan">>
          [] s = "capture_dr"       -> <<"shift_dr", "exit_1_dr">>
          [] s = "shift_dr"         -> <<"shift_dr", "exit_1_dr">>
          [] s = "exit_1_dr"        -> <<"pause_dr", "update_dr">>
          [] s = "pause_dr"         -> <<"pause_dr", "exit_2_dr">>
          [] s = "exit_2_dr"        -> <<"shift_dr", "update_dr">>
          [] s = "update_dr"        -> <<"run_test_idle", "select_dr_scan">>
          [] s = "select_ir_scan"   -> <<"capture_ir", "test_logic_reset">>
          [] s = "capture_ir"       -> <<"shift_ir", "exit_1_ir">>
          [] s = "shift_ir"         -> <<"shift_ir", "exit_1_ir">>
          [] s = "exit_1_ir"        -> <<"pause_ir", "update_ir">>
          [] s = "pause_ir"         -> <<"pause_ir", "exit_2_ir">>
          [] s = "exit_2_ir"        -> <<"shift_ir", "update_ir">>
          [] s = "update_ir"        -> <<"run_test_idle", "select_dr_scan">>]

\* C4: the wired transition function is the IEEE-1149.1 table: getx(S, e) is
\* the state the table lists for (S, e), for each state and each event, and a
\* one-bit handle_events moves the state machine as the table says.
C4_WiringIsIeeeTable ==
    /\ \A s \in States : \A e \in {0, 1} : getx(s, e) = Ieee1149Table[s][e + 1]
    /\ (last_op.op = "handle_events" /\ last_op.data.width = 1) =>
           current = Ieee1149Table[last_op.src][last_op.data.value + 1]

\* event 1 clocked in select_ir_scan
C4_Witness ==
    /\ last_op.op = "handle_events"
    /\ last_op.src = "select_ir_scan"
    /\ last_op.data = BitSequence(<<1>>)
    /\ current = "test_logic_reset"

IsExit(a, b) == b = exits(a)[1] \/ b = exits(a)[2]

\* C5: find_path(target, source) starts with source, ends with target, holds
\* no state twice, each of its consecutive pairs (a, b) has a # b and b an
\* exit of a, and it is [source] when source = target.
C5_PathWellFormed ==
    fp.stage \in {"path", "events"} =>
        LET path == fp.path
        IN  /\ path # <<>>
            /\ path[1] = fp.source
            /\ path[Len(path)] = fp.target
            /\ \A i, j \in 1..Len(path) : i # j => path[i] # path[j]
            /\ \A i \in 1..(Len(path) - 1) :
                  path[i] # path[i + 1] /\ IsExit(path[i], path[i + 1])
            /\ fp.source = fp.target => path = <<fp.source>>

\* a path from pause_ir to pause_dr
C5_Witness ==
    /\ fp.stage = "path"
    /\ fp.source = "pause_ir" /\ fp.target = "pause_dr"
    /\ Len(fp.path) > 2

\* breadth-first search: the number of events of the shortest event sequence
\* that moves the TAP from a state of the frontier (at distance d from the
\* source) to target, -1 if there is none
RECURSIVE BfsDistance(_, _, _, _)
BfsDistance(frontier, seen, target, d) ==
    IF target \in frontier THEN d
    ELSE IF frontier = {} THEN -1
    ELSE LET next == {getx(s, e) : s \in frontier, e \in {0, 1}} \ seen
         IN  BfsDistance(next, seen \cup next, target, d + 1)

\* C6: the number of edges of find_path(target, source) is the shortest
\* distance from source to target in the transition graph.
C6_PathIsShortest ==
    fp.stage \in {"path", "events"} =>
        Len(fp.path) - 1 = BfsDistance({fp.source}, {fp.source}, fp.target, 0)

\* from exit_1_dr to update_dr: the event-0 exit is explored first and leads
\* to update_dr too, by a longer way
C6_Witness ==
    /\ fp.stage = "path"
    /\ fp.source = "exit_1_dr" /\ fp.target = "update_dr"
    /\ fp.path = <<"exit_1_dr", "update_dr">>

\* C7: find_path finds a route for every current state and valid target, so
\* no operation ends in the JtagError of get_events and every change_state
\* with a valid name completes.
C7_PathAlwaysFound ==
    /\ last_op.status # "JtagError"
    /\ \A i \in DOMAIN cs_log : ~cs_log[i].hit => cs_log[i].path # <<>>
    /\ (last_op.op = "change_state" /\ last_op.target \in States) =>
           last_op.status = "ok"

\* a path synthesized from pause_ir to pause_dr
C7_Witness ==
    /\ Completed("change_state")
    /\ last_op.src = "pause_ir" /\ last_op.target = "pause_dr"
    /\ ~cs_log[1].hit
    /\ Len(cs_log[1].path) > 2

\* C8: every change_state(X) called in state S passes to write_tms the bits
\* that the first change_state(X) called in S passed.
C8_SameBitsOnHitAndMiss ==
    \A i \in DOMAIN cs_log :
        LET key == <<cs_log[i].source, cs_log[i].target>>
        IN  key \in DOMAIN first_tms /\ first_tms[key] = cs_log[i].events

\* a third operation served by the engine cache with at least two bits
C8_Witness ==
    /\ Completed("change_state")
    /\ nops = 3
    /\ cs_log[1].hit
    /\ cs_log[1].events.width >= 2

\* C9: the replay cache is transparent: handle_events(E) called in S leaves
\* the state machine where the bits of E, replayed one by one through getx,
\* lead from S, and every replay-cache entry (name, length, value) -> R has R
\* the replay of that sequence from the state called name.
C9_ReplayCacheTransparent ==
    /\ last_op.op = "handle_events" =>
           current = Replay(last_op.src, BitSeqBits(last_op.data))
    /\ \A k \in DOMAIN tr_cache :
           tr_cache[k] = Replay(k[1], BitSeqBits([width |-> k[2], value |-> k[3]]))

\* a two-bit sequence served by the replay cache
C9_Witness ==
    /\ last_op.op = "handle_events"
    /\ last_op.hit
    /\ last_op.data.width = 2
    /\ current # last_op.src

\* C10: handle_events with an empty bit sequence leaves the current state as
\* it is.
C10_EmptyEventsKeepState ==
    (last_op.op = "handle_events" /\ last_op.data.width = 0) =>
        current = last_op.src

\* an empty sequence served by the replay cache outside the reset state
C10_Witness ==
    /\ last_op.op = "handle_events"
    /\ last_op.data.width = 0
    /\ last_op.hit
    /\ last_op.src # "test_logic_reset"
    /\ Cardinality(DOMAIN tr_cache) >= 2

\* C11: go_idle() and run() leave the state machine and the TAP in
\* run_test_idle from every state; called when the state machine is already
\* in run_test_idle (a second go_idle or run), every mode-select sequence
\* they clock is sent while the TAP is in run_test_idle and leaves it there.
C11_IdleIsStable ==
    last_op.op \in {"go_idle", "run"} =>
        /\ last_op.status = "ok"
        /\ current = "run_test_idle"
        /\ tap = "run_test_idle"
        /\ last_op.src = "run_test_idle" =>
             \A i \in 1..Len(ctrl_log) :
                /\ ctrl_log[i].call = "write_tms"
                /\ ctrl_log[i].tap = "run_test_idle"
                /\ TapClock(ctrl_log[i].tap, BitSeqBits(ctrl_log[i].bits))
                     = "run_test_idle"

\* go_idle then run: the second call is served by the path cache
C11_Witness ==
    /\ Completed("run")
    /\ last_op.src = "run_test_idle"
    /\ Len(cs_log) = 1 /\ cs_log[1].hit
    /\ Len(ctrl_log) = 1
    /\ current = "run_test_idle" /\ tap = "run_test_idle"

\* write_ir of the bits 1, 0, 1 called in test_logic_reset has completed
C12_Scenario ==
    /\ Completed("write_ir")
    /\ last_op.src = "test_logic_reset"
    /\ last_op.data = BitSequence(<<1, 0, 1>>)

\* C12 as stated: in the scenario, change_state(shift_ir) reports the path
\* capture_ir -> shift_ir with the event bits 0, 1, change_state(update_ir)
\* the path shift_ir -> exit_1_ir -> update_ir with the bits 1, 1, and the
\* final state is update_ir.
C12_PathsAsStated ==
    C12_Scenario =>
        /\ Len(cs_log) = 2
        /\ cs_log[1].hit \/ cs_log[1].path = <<"capture_ir", "shift_ir">>
        /\ BitSeqBits(cs_log[1].events) = <<0, 1>>
        /\ cs_log[2].hit
             \/ cs_log[2].path = <<"shift_ir", "exit_1_ir", "update_ir">>
        /\ BitSeqBits(cs_log[2].events) = <<1, 1>>
        /\ current = "update_ir"

\* C12, amended: in the scenario, change_state(shift_ir) reports the path
\* test_logic_reset -> run_test_idle -> select_dr_scan -> select_ir_scan ->
\* capture_ir -> shift_ir with the event bits 0, 1, 1, 0, 0,
\* change_state(update_ir) the path shift_ir -> exit_1_ir -> update_ir with
\* the bits 1, 1, and the final state is update_ir (a path is computed only
\* on a miss of the path cache, and logged without its first state).
C12_PathsFromReset ==
    C12_Scenario =>
        /\ Len(cs_log) = 2
        /\ cs_log[1].target = "shift_ir" /\ cs_log[2].target = "update_ir"
        /\ cs_log[1].hit
             \/ /\ cs_log[1].path =
                     <<"test_logic_reset", "run_test_idle", "select_dr_scan",
                       "select_ir_scan", "capture_ir", "shift_ir">>
                /\ cs_log[1].logged =
                     <<"run_test_idle", "select_dr_scan", "select_ir_scan",
                       "capture_ir", "shift_ir">>
        /\ BitSeqBits(cs_log[1].events) = <<0, 1, 1, 0, 0>>
        /\ cs_log[2].hit
             \/ /\ cs_log[2].path = <<"shift_ir", "exit_1_ir", "update_ir">>
                /\ cs_log[2].logged = <<"exit_1_ir", "update_ir">>
        /\ BitSeqBits(cs_log[2].events) = <<1, 1>>
        /\ current = "update_ir"
        /\ tap = "update_ir"

\* the scenario as the first operation of the engine: both paths computed
C12_Witness ==
    /\ C12_Scenario
    /\ nops = 1
    /\ ~cs_log[1].hit /\ ~cs_log[2].hit
    /\ Len(cs_log[1].path) = 6

\* the shift and update states of the two write operations
WriteOps ==
    {[op |-> "write_ir", shift |-> "shift_ir", update |-> "update_ir"],
     [op |-> "write_dr", shift |-> "shift_dr", update |-> "update_dr"]}

\* C13: write_ir(data) and write_dr(data), from any state, make exactly
\* three controller calls: write_tms with the bits that take the TAP to the
\* shift state, one write of data made while the state machine and the TAP
\* are both in that shift state, write_tms with the bits that take the TAP
\* to the update state; the operation ends in the update state.
C13_WriteCallOrder ==
    \A w \in WriteOps :
        last_op.op = w.op =>
            /\ last_op.status = "ok"
            /\ Len(ctrl_log) = 3
            /\ ctrl_log[1].call = "write_tms"
            /\ ctrl_log[1].tap = last_op.src
            /\ TapClock(ctrl_log[1].tap, BitSeqBits(ctrl_log[1].bits)) = w.shift
            /\ ctrl_log[2].call = "write"
            /\ ctrl_log[2].bits = last_op.data
            /\ ctrl_log[2].current = w.shift
            /\ ctrl_log[2].tap = w.shift
            /\ ctrl_log[3].call = "write_tms"
            /\ ctrl_log[3].tap = w.shift
            /\ TapClock(ctrl_log[3].tap, BitSeqBits(ctrl_log[3].bits)) = w.update
            /\ current = w.update
            /\ tap = w.update

\* write_dr called away from test_logic_reset, after another operation
C13_Witness ==
    /\ Completed("write_dr")
    /\ last_op.src \notin {"test_logic_reset", "shift_dr", "update_dr"}
    /\ last_op.data = BitSequence(<<1, 0, 1>>)
    /\ ctrl_log[2].call = "write"
    /\ current = "update_dr"

\* C14: read_dr(length), from any state, makes exactly three controller
\* calls: write_tms taking the TAP to shift_dr, one read of `length` bits
\* made while the state machine and the TAP are in shift_dr, write_tms
\* taking the TAP to update_dr; it returns the bits the controller
\* answered, unchanged, and ends in update_dr.
C14_ReadDr ==
    last_op.op = "read_dr" =>
        /\ last_op.status = "ok"
        /\ Len(ctrl_log) = 3
        /\ ctrl_log[1].call = "write_tms"
        /\ TapClock(ctrl_log[1].tap, BitSeqBits(ctrl_log[1].bits)) = "shift_dr"
        /\ ctrl_log[2].call = "read"
        /\ ctrl_log[2].length = last_op.length
        /\ ctrl_log[2].current = "shift_dr"
        /\ ctrl_log[2].tap = "shift_dr"
        /\ ctrl_log[3].call = "write_tms"
        /\ TapClock(ctrl_log[3].tap, BitSeqBits(ctrl_log[3].bits)) = "update_dr"
        /\ last_op.ret = ctrl_log[2].bits
        /\ current = "update_dr"
        /\ tap = "update_dr"

\* read_dr called away from test_logic_reset returns a non-zero answer
C14_Witness ==
    /\ Completed("read_dr")
    /\ last_op.src # "test_logic_reset"
    /\ last_op.length = 2
    /\ last_op.ret = BitSequence(<<1, 0>>)
    /\ current = "update_dr"

\* the step is a call of the named operation
Calls(opname) == nops' = nops + 1 /\ last_op'.op = opname

\* C15: JtagStateMachine.reset() sets the current state to test_logic_reset
\* from every state and leaves the replay cache as it was: it replays no
\* event and writes no entry.
C15_FsmResetSetsState ==
    [][Calls("fsm_reset") =>
          /\ last_op'.status = "ok"
          /\ current' = "test_logic_reset"
          /\ tr_cache' = tr_cache]_vars

\* a reset called away from test_logic_reset with a replay cache that holds
\* an entry
C15_Witness ==
    /\ Completed("fsm_reset")
    /\ last_op.src \notin {"test_logic_reset", "run_test_idle"}
    /\ current = "test_logic_reset"
    /\ tr_cache # EmptyCache

\* C17: Engine.reset(), and the JtagStateMachine.reset() it calls, leave the
\* engine path cache and the state machine replay cache as they were.
C17_ResetKeepsCaches ==
    [][Calls("reset") =>
          /\ eng_cache' = eng_cache
          /\ tr_cache' = tr_cache]_vars

\* a completed reset of an engine away from test_logic_reset whose two
\* caches hold entries
C17_Witness ==
    /\ Completed("reset")
    /\ last_op.src # "test_logic_reset"
    /\ current = "test_logic_reset"
    /\ eng_cache # EmptyCache
    /\ tr_cache # EmptyCache

\* C16: Engine.reset() makes one controller call, reset, while the state
\* machine is still in the state it had before the operation; the state
\* machine is in test_logic_reset once the operation has completed, and in
\* its former state when the controller reset has failed.
C16_ResetControllerFirst ==
    last_op.op = "reset" =>
        /\ Len(ctrl_log) = 1
        /\ ctrl_log[1].call = "reset"
        /\ ctrl_log[1].current = last_op.src
        /\ last_op.status = IF ctrl_log[1].raised THEN "TransportError" ELSE "ok"
        /\ last_op.status = "ok" =>
              current = "test_logic_reset" /\ tap = "test_logic_reset"
        /\ last_op.status # "ok" => current = last_op.src

\* a reset called away from test_logic_reset whose controller call failed
C16_Witness ==
    /\ last_op.op = "reset"
    /\ last_op.status = "TransportError"
    /\ last_op.src # "test_logic_reset"
    /\ current = last_op.src

\* the step is a call of an operation that a failing controller call ends
Fails == nops' = nops + 1 /\ last_op'.status = "TransportError"

\* C18 as stated: an operation that fails has changed neither cache; when
\* write_tms fails inside change_state on a miss, the engine path cache
\* holds no new entry.
C18_FailsBeforeCacheMutation ==
    [][Fails => eng_cache' = eng_cache /\ tr_cache' = tr_cache]_vars

\* the last controller call of the operation
LastCall(log) == log[Len(log)]

\* C19: an operation ends with the transport error exactly when one of its
\* controller calls raised, and that call is its last controller call (no
\* retry, no further call); the state machine is in the state it had when
\* the failing call was made, and when the first write_tms of an operation
\* fails (change_state), current state and replay cache are as before the
\* operation.
C19_TransportErrorPropagated ==
    [][nops' = nops + 1 =>
          /\ last_op'.status = "TransportError" <=>
                \E i \in 1..Len(ctrl_log') : ctrl_log'[i].raised
          /\ \A i \in 1..Len(ctrl_log') :
                ctrl_log'[i].raised => i = Len(ctrl_log')
          /\ Fails =>
                /\ current' = LastCall(ctrl_log').current
                /\ LastCall(ctrl_log').call = "write_tms" /\ Len(ctrl_log') = 1
                      => current' = current /\ tr_cache' = tr_cache]_vars

\* a change_state whose write_tms failed after clocking bits: the TAP has
\* left the state the state machine is still in
C19_Witness ==
    /\ last_op.op = "change_state"
    /\ last_op.status = "TransportError"
    /\ Len(ctrl_log) = 1 /\ ctrl_log[1].raised
    /\ current = last_op.src
    /\ tap # current

\* C20 as stated: once a completed reset has followed a failure that left
\* the TAP away from the state machine's state, a completed reset leaves
\* both in test_logic_reset and every completed operation leaves the two
\* states equal.
C20_RecoveredForGood ==
    recovery.recovered /\ last_op.status = "ok" => tap = current

\* C20, amended: a completed reset leaves the state machine and the TAP in
\* test_logic_reset, also after a failure that left them apart; from then
\* on, as long as no controller call has failed since the last completed
\* reset, every completed operation leaves the two states equal.
C20_RecoveryUntilNextFailure ==
    /\ Completed("reset") =>
          current = "test_logic_reset" /\ tap = "test_logic_reset"
    /\ recovery.recovered /\ ~recovery.failed /\ last_op.status = "ok" =>
          tap = current

\* after a recovery, a change_state has completed away from
\* test_logic_reset
C20_Witness ==
    /\ recovery.recovered
    /\ ~recovery.failed
    /\ Completed("change_state")
    /\ current = "shift_dr"
    /\ tap = "shift_dr"

\* C21 as stated: every method of the controller capability called on the
\* base JtagController ends with the not-implemented error.
C21_BaseControllerFails ==
    last_op.op = "ctrl_call" => last_op.status = "NotImplementedError"

\* C22: of two engines constructed one after the other, each is at any time
\* what a run of its own operations alone makes of a lone engine: current
\* state, exits of the states, path cache, replay cache and TAP; operations
\* on the other engine change none of them.
C22_EnginesIndependent ==
    \A n \in {1, 2} : View(pair.heap, pair.eng[n]) = pair.solo[n]

\* both engines have been used, and differ in state and in both caches
C22_Witness ==
    LET a == View(pair.heap, pair.eng[1])
        b == View(pair.heap, pair.eng[2])
    IN  /\ a.current = "shift_dr" /\ b.current = "update_ir"
        /\ a.cache # EmptyCache /\ b.cache # EmptyCache
        /\ DOMAIN a.cache # DOMAIN b.cache
        /\ DOMAIN a.tr_cache # DOMAIN b.tr_cache
        /\ a.exits = Wiring /\ b.exits = Wiring

\* C23: with a controller that empties the sequence write_tms is given,
\* every entry (source, target) of the engine path cache is, after any
\* sequence of operations, the sequence get_events(find_path(target,
\* source)) stored on the miss, which is also the one first sent.
C23_CachedSequencesKept ==
    \A key \in DOMAIN eng_cache :
        LET got == get_events(find_path(key[2], key[1]))
        IN  /\ ~got.raised
            /\ eng_cache[key] = got.events
            /\ key \in DOMAIN first_tms => first_tms[key] = eng_cache[key]

\* a change_state served from the path cache with a sequence of several
\* bits, sent before and still whole
C23_Witness ==
    /\ Completed("change_state")
    /\ Len(cs_log) = 1 /\ cs_log[1].hit
    /\ Consumed(cs_log[1].events) = NoBits
    /\ eng_cache[<<last_op.src, last_op.target>>].width >= 3
    /\ ctrl_log[1].bits = eng_cache[<<last_op.src, last_op.target>>]

\* C24: a newly constructed state machine is in test_logic_reset with an
\* empty replay cache (and a new engine has an empty path cache); in every
\* reachable state the current state is one of the 16 states, and for
\* every state both getx(0) and getx(1) are among the 16 states.
C24_StatesClosed ==
    /\ nops = 0 =>
          /\ current = "test_logic_reset"
          /\ tr_cache = EmptyCache
          /\ eng_cache = EmptyCache
    /\ Cardinality(States) = 16
    /\ current \in States
    /\ \A s \in States : \A event \in {0, 1} : getx(s, event) \in States
    /\ \A key \in DOMAIN tr_cache : tr_cache[key] \in States

\* events have taken the state machine through exit_1_dr to update_dr
C24_Witness ==
    /\ nops = MaxFsmOps
    /\ current = "update_dr"
    /\ \E key \in DOMAIN tr_cache :
          key[1] = "exit_1_dr" /\ tr_cache[key] = "update_dr"

\* every loop-free path from state to target that takes no self-loop, in
\* the order a depth-first enumeration finds them, event 0 before event 1
RECURSIVE AllPaths(_, _, _, _)
AllPaths(x, state, target, path) ==
    IF state = target THEN <<path \o <<state>>>>
    ELSE LET sub(xstate) ==
                 IF xstate = state \/ InPath(xstate, path) THEN <<>>
                 ELSE AllPaths(x, xstate, target, path \o <<state>>)
         IN  sub(x[state][1]) \o sub(x[state][2])

\* the events of a path, the smaller event where both exits fit
EventsOf(x, p) == [k \in 1..(Len(p) - 1) |-> IF x[p[k]][1] = p[k + 1] THEN 0 ELSE 1]

\* a is lexicographically at most b (sequences of the same length)
LexLeq(a, b) ==
    \/ a = b
    \/ \E k \in 1..Len(a) :
          a[k] < b[k] /\ \A j \in 1..(k - 1) : a[j] = b[j]

\* C25: find_path returns, of all the loop-free paths without self-loop
\* from source to target, the first of minimum length in depth-first order
\* (event 0 before event 1), which is the minimum-length path with the
\* lexicographically smallest events; it returns no path when there is
\* none.
C25_TieBreakFirstFound ==
    fp.stage = "path" =>
        LET all == AllPaths(graph, fp.source, fp.target, <<>>)
            shortest == {i \in 1..Len(all) :
                           \A j \in 1..Len(all) : Len(all[j]) >= Len(all[i])}
        IN  IF all = <<>> THEN fp.path = <<>>
            ELSE /\ \E i \in shortest :
                      /\ fp.path = all[i]
                      /\ \A j \in shortest : i <= j
                 /\ \A j \in shortest :
                      LexLeq(EventsOf(graph, fp.path), EventsOf(graph, all[j]))

\* two different shortest paths exist, through node 2 and through node 3,
\* and the exit of event 0 leads to node 3
C25_Witness ==
    /\ fp.stage = "path"
    /\ graph[1] = <<3, 2>>
    /\ graph[2][2] = 4 /\ graph[3][2] = 4
    /\ graph[2][1] # 4 /\ graph[3][1] # 4
    /\ fp.path = <<1, 3, 4>>

\* the loop-free paths without self-loop from source to target that have
\* the minimum length
ShortestPaths(x, source, target) ==
    LET all == AllPaths(x, source, target, <<>>)
    IN  {all[i] : i \in {i \in 1..Len(all) :
                           \A j \in 1..Len(all) : Len(all[j]) >= Len(all[i])}}

\* C26: on the 16-state graph, for every ordered pair (source, target)
\* exactly one loop-free path without self-loop has the minimum length,
\* and find_path returns it.
C26_ShortestPathUnique ==
    fp.stage = "path" =>
        ShortestPaths([s \in States |-> exits(s)], fp.source, fp.target)
            = {fp.path}

\* a pair of states joined by several loop-free paths of different lengths
C26_Witness ==
    /\ fp.stage = "path"
    /\ fp.source = "exit_1_dr" /\ fp.target = "shift_dr"
    /\ Len(AllPaths(graph, fp.source, fp.target, <<>>)) >= 2
    /\ fp.path = <<"exit_1_dr", "pause_dr", "exit_2_dr", "shift_dr">>

\* every consecutive pair of the path is joined by an edge of the graph
Joined(path) == \A k \in 1..(Len(path) - 1) : IsExit(path[k], path[k + 1])

\* C27: for a non-empty path whose consecutive pairs are all joined by an
\* edge (self-loops included), get_events does not fail and returns
\* len(path) - 1 bits, bit k being the one event that takes path[k] to
\* path[k+1]; for a one-element path it returns the empty sequence.
C27_EventsOfPath ==
    fp.stage = "events" /\ fp.path # <<>> /\ Joined(fp.path) =>
        /\ ~fp.raised
        /\ fp.events.width = Len(fp.path) - 1
        /\ \A k \in 1..(Len(fp.path) - 1) :
              \A event \in {0, 1} :
                  getx(fp.path[k], event) = fp.path[k + 1]
                      <=> BitSeqBits(fp.events)[k] = event
        /\ Len(fp.path) = 1 => fp.events = NoBits

\* a path that stays in shift_dr (self-loop) and then leaves it
C27_Witness ==
    /\ fp.stage = "events"
    /\ fp.path = <<"shift_dr", "shift_dr", "exit_1_dr">>
    /\ ~fp.raised
    /\ BitSeqBits(fp.events) = <<0, 1>>

\* C28: get_events fails with "Invalid path" exactly for the malformed
\* paths: the empty path and the paths with a consecutive pair not joined
\* by an edge.
C28_InvalidPathExactly ==
    fp.stage = "events" =>
        (fp.raised <=> fp.path = <<>> \/ ~Joined(fp.path))

\* a path whose first pair is an edge and whose second pair is not, refused
C28_Witness ==
    /\ fp.stage = "events"
    /\ fp.raised
    /\ Len(fp.path) = 3
    /\ IsExit(fp.path[1], fp.path[2])
    /\ ~IsExit(fp.path[2], fp.path[3])

\* C29: every key (state name, length, value) of the replay cache is, after
\* any step, still a key of the cache and maps to the same state.
C29_ReplayCacheMonotone ==
    [][\A key \in DOMAIN tr_cache :
          key \in DOMAIN tr_cache' /\ tr_cache'[key] = tr_cache[key]]_vars

\* a handle_events served from a replay cache of several entries, after a
\* reset
C29_Witness ==
    /\ last_op.op = "handle_events"
    /\ last_op.hit
    /\ last_op.data.width > 0
    /\ Cardinality(DOMAIN tr_cache) >= 2
    /\ nops = MaxFsmOps

\* C30: apart from reset, the current state changes through change_state
\* only: the calls that only read (find_path, get_events, state_of,
\* get_available_statenames) leave it as it was, and in every other
\* operation the change_state calls account for the whole change, each
\* starting where the former ended, so the data calls made between them
\* (write, read) leave it unchanged.
C30_OnlyChangeStateMoves ==
    [][nops' = nops + 1 =>
          /\ last_op'.op \in QueryOps => current' = current
          /\ last_op'.op \notin QueryOps \cup {"reset"} =>
                /\ cs_log' = <<>> => current' = current
                /\ cs_log' # <<>> => cs_log'[1].source = current
                /\ \A i \in 1..Len(cs_log') :
                      cs_log'[i].reached =
                          IF i < Len(cs_log') THEN cs_log'[i + 1].source
                          ELSE current'
                /\ \A i \in 1..Len(ctrl_log') :
                      ctrl_log'[i].call \in {"write", "read"} =>
                          /\ ctrl_log'[i].current = cs_log'[1].reached
                          /\ ctrl_log'[i].current = cs_log'[2].source]_vars

\* find_path to another state has been called away from test_logic_reset,
\* after a write_dr, and has returned the path
C30_Witness ==
    /\ Completed("find_path")
    /\ current = "update_dr"
    /\ last_op.src = "update_dr"
    /\ last_op.target = "exit_1_ir"
    /\ Len(last_op.ret) = 5

\* the eight tags a mode set is drawn from
ModeVocabulary ==
    {"reset", "idle", "dr", "ir", "shift", "capture", "pause", "update"}

\* C31 as stated: the mode set of the state a state_of query is made in
\* holds tags of the eight-tag vocabulary only, so that the query reports
\* test_logic_reset to be of mode idle, and exit_2_dr and exit_1_ir to be of
\* mode update.
C31_ModesWithinVocabulary ==
    Completed("state_of") =>
        /\ modes(current) \subseteq ModeVocabulary
        /\ (current = "test_logic_reset" /\ last_op.target = "idle")
               => last_op.ret = TRUE
        /\ (current \in {"exit_2_dr", "exit_1_ir"} /\ last_op.target = "update")
               => last_op.ret = TRUE

C33_ResetThroughCapability ==
    (last_op.op = "reset" /\ ~ctrl_has_reset) =>
        /\ last_op.status = "ok"
        /\ \E i \in 1..Len(ctrl_log) : ctrl_log[i].call \in ControllerOps
        /\ current = "test_logic_reset"

\* the states of a sequence are all different
LoopFree(path) ==
    \A i \in 1..Len(path) : \A j \in 1..Len(path) : path[i] = path[j] => i = j

\* C34: for every pair (source, target) of the 16 states, every call of
\* next_path in progress walks a loop-free path of at most 16 states, its
\* own state included, and the search returns: find_path gets its result,
\* the path the recursive definition gives.
C34_FindPathTerminates ==
    /\ [](\A k \in 1..Len(frames) :
            /\ LoopFree(frames[k].path \o <<frames[k].state>>)
            /\ Len(frames[k].path) + 1 <= 16)
    /\ [](fp.stage = "path" => fp.path = find_path(fp.target, fp.source))
    /\ <>(fp.stage = "path")

\* a search that went through deep calls has returned
C34_Witness ==
    /\ fp.stage = "path"
    /\ frames = <<>>
    /\ fp.source = "exit_2_ir"
    /\ fp.target = "pause_dr"
    /\ Len(fp.path) >= 2

\* the states the TAP goes through when the bits of events are clocked in
\* from state source, one state per bit
StatesThrough(source, events) ==
    {TapClock(source, FirstBits(BitSeqBits(events), k)) : k \in 1..events.width}

\* C35: with reset, go_idle, run, capture_ir, capture_dr, write_ir, write_dr
\* and read_dr as the only operations called, no mode-select sequence of an
\* operation other than reset takes the TAP to test_logic_reset on any of
\* its bits, and after such an operation neither the state machine nor the
\* TAP is in test_logic_reset.
C35_NoReturnToReset ==
    (nops > 0 /\ last_op.op # "reset") =>
        /\ current # "test_logic_reset"
        /\ tap # "test_logic_reset"
        /\ \A i \in 1..Len(cs_log) :
              "test_logic_reset" \notin
                  StatesThrough(cs_log[i].source, cs_log[i].events)

\* capture_ir called in update_ir: the sequence goes through
\* select_ir_scan, whose exit on event 1 is test_logic_reset
C35_Witness ==
    /\ Completed("capture_ir")
    /\ Len(cs_log) = 1
    /\ cs_log[1].source = "update_ir"
    /\ "select_ir_scan" \in StatesThrough(cs_log[1].source, cs_log[1].events)
    /\ current = "capture_ir"

\* the shift state write_ir, write_dr and read_dr go to first
ShiftStateOf(opname) == IF opname = "write_ir" THEN "shift_ir" ELSE "shift_dr"

\* the data call of the operation raised
DataCallFailed ==
    /\ last_op.op \in {"write_ir", "write_dr", "read_dr"}
    /\ last_op.status = "TransportError"
    /\ \E i \in 1..Len(ctrl_log) :
          ctrl_log[i].call \in {"write", "read"} /\ ctrl_log[i].raised

\* C36: when the data call of write_ir, write_dr or read_dr raises, the
\* controller calls of the operation are the write_tms of the first
\* change_state and the data call, no more; the operation made that one
\* change_state; the state machine is in the shift state, as it was when
\* the data call was made; the path cache holds the sequence from the state
\* before the operation to the shift state, and the replay cache the shift
\* state for that sequence.
C36_DataFailureStopsInShift ==
    DataCallFailed =>
        LET shift == ShiftStateOf(last_op.op)
            first == cs_log[1]
        IN  /\ Len(ctrl_log) = 2
            /\ ctrl_log[1].call = "write_tms" /\ ~ctrl_log[1].raised
            /\ ctrl_log[2].call \in {"write", "read"}
            /\ Len(cs_log) = 1
            /\ first.source = last_op.src /\ first.target = shift
            /\ ctrl_log[2].current = shift /\ current = shift
            /\ HasKey(eng_cache, Transition(last_op.src, shift))
            /\ eng_cache[Transition(last_op.src, shift)] = first.events
            /\ HasKey(tr_cache, Transit(last_op.src, first.events))
            /\ tr_cache[Transit(last_op.src, first.events)] = shift

\* write_ir called in pause_dr, the write raised: the state machine has
\* left pause_dr for shift_ir
C36_Witness ==
    /\ DataCallFailed
    /\ last_op.op = "write_ir"
    /\ last_op.src = "pause_dr"
    /\ current = "shift_ir"
    /\ ~cs_log[1].hit

\* C37: a change_state called with a name that is not the name of a state
\* raises, with no controller call made and no change_state work done; the
\* current state, the engine path cache and the replay cache are as before
\* the call.
C37_InvalidNameRejected ==
    [][(Calls("change_state") /\ last_op'.target \notin States) =>
          /\ last_op'.status = "KeyError"
          /\ ctrl_log' = <<>> /\ cs_log' = <<>>
          /\ tap' = tap
          /\ current' = current
          /\ eng_cache' = eng_cache
          /\ tr_cache' = tr_cache]_vars

\* an invalid name given once the engine has moved and both caches hold
\* entries
C37_Witness ==
    /\ last_op.op = "change_state"
    /\ last_op.target \in InvalidNames
    /\ last_op.status = "KeyError"
    /\ current = "pause_ir"
    /\ eng_cache # EmptyCache /\ tr_cache # EmptyCache
    /\ ctrl_log = <<>>

\* C38: handle_events called with five 1 events leaves the state machine in
\* test_logic_reset, whatever the state it is called in and whether or not
\* the replay cache holds the answer.
C38_FiveOnesReset ==
    (last_op.op = "handle_events" /\ last_op.data = FiveOnes) =>
        current = "test_logic_reset"

\* five 1 events given in pause_dr for the second time: the replay cache
\* answers
C38_Witness ==
    /\ last_op.op = "handle_events"
    /\ last_op.data = FiveOnes
    /\ last_op.src = "pause_dr"
    /\ last_op.hit
    /\ current = "test_logic_reset"

\* C39: whatever the current state and the target, the sequence
\* change_state hands to write_tms has at most 8 bits, and the path it was
\* computed from at most 9 states.
C39_SequenceAtMost8Bits ==
    /\ \A i \in 1..Len(ctrl_log) :
          ctrl_log[i].call = "write_tms" => ctrl_log[i].bits.width <= 8
    /\ \A i \in 1..Len(cs_log) :
          /\ Len(cs_log[i].path) <= 9
          /\ cs_log[i].events.width <= 8

\* a change_state whose sequence has 8 bits
C39_Witness ==
    /\ Completed("change_state")
    /\ Len(ctrl_log) = 1
    /\ ctrl_log[1].call = "write_tms"
    /\ ctrl_log[1].bits.width = 8
    /\ Len(cs_log[1].path) = 9

\* the keys change_state can store in the engine path cache: (state, name)
PathKeys == {<<s, t>> : s \in States, t \in States}

\* the keys handle_events can store when it is given the sequence of
\* change_state: (state name, length, value) of the sequence from a state to
\* a target
ReplayKeys ==
    {<<s, get_events(find_path(t, s)).events.width,
          get_events(find_path(t, s)).events.value>> : s \in States, t \in States}

\* C40: every key of the engine path cache is one of the 16 x 16 pairs
\* (state, state name) and every key of the replay cache is the key of the
\* sequence of one of these pairs, so neither cache ever holds more than 256
\* entries.
C40_CachesBounded ==
    /\ DOMAIN eng_cache \subseteq PathKeys
    /\ DOMAIN tr_cache \subseteq ReplayKeys
    /\ Cardinality(PathKeys) = 256
    /\ Cardinality(ReplayKeys) <= 256
    /\ Cardinality(DOMAIN eng_cache) <= 256
    /\ Cardinality(DOMAIN tr_cache) <= 256

\* three operations have stored five entries in each cache
C40_Witness ==
    /\ nops = 3
    /\ Cardinality(DOMAIN eng_cache) = 5
    /\ Cardinality(DOMAIN tr_cache) = 5
    /\ last_op.status = "ok"

====
